---- MODULE Spec2Model ----
(***************************************************************************)
(* Model of the table-column-integrity rule (GHD047) of the content        *)
(* linter: src/content-linter/lib/linting-rules/table-column-integrity.js  *)
(*                                                                         *)
(* A line is a string; characters are read with SubSeq.  The three         *)
(* regular expressions of the rule are operators that accept exactly the   *)
(* strings the expressions accept.  One invocation of the rule's function  *)
(* is a process p with its own locals; each loop iteration is one step.    *)
(***************************************************************************)
EXTENDS Integers, Sequences, FiniteSets, TLC

(***************************************************************************)
(* Bounds                                                                  *)
(***************************************************************************)
MaxLines == 4

\* Rows after the header and the separator in the documents of two
\* interleaved invocations
MaxConcRows == 1

\* Characters of a row given to the functions on rows
MaxRowLen == 5

(***************************************************************************)
(* Strings                                                                 *)
(***************************************************************************)
At(s, k) == SubSeq(s, k, k)

\* \s of a JavaScript regular expression and the characters trim() removes
IsSpace(c) == c \in {" ", "\t"}

Positions(s) == 1..Len(s)

AllSpace(s, from, to) == \A k \in from..to : IsSpace(At(s, k))

\* String.prototype.trim
trim(s) ==
    IF AllSpace(s, 1, Len(s)) THEN ""
    ELSE LET first == CHOOSE k \in Positions(s) : ~IsSpace(At(s, k)) /\ AllSpace(s, 1, k - 1)
             last  == CHOOSE k \in Positions(s) : ~IsSpace(At(s, k)) /\ AllSpace(s, k + 1, Len(s))
         IN  SubSeq(s, first, last)

\* String.prototype.includes('|')
includesPipe(s) == \E k \in Positions(s) : At(s, k) = "|"

\* String.prototype.split('|')
RECURSIVE split(_)
split(s) ==
    IF ~includesPipe(s) THEN <<s>>
    ELSE LET k == CHOOSE j \in Positions(s) : At(s, j) = "|" /\ \A m \in 1..(j - 1) : At(s, m) # "|"
         IN  <<SubSeq(s, 1, k - 1)>> \o split(SubSeq(s, k + 1, Len(s)))

(***************************************************************************)
(* The regular expressions                                                 *)
(***************************************************************************)
\* /^\s*\|.+\|\s*$/: wants at least one character between the delimiters
TABLE_ROW_REGEX_nonEmpty(s) ==
    \E a, b \in Positions(s) :
        /\ a + 1 < b
        /\ At(s, a) = "|" /\ At(s, b) = "|"
        /\ AllSpace(s, 1, a - 1)
        /\ AllSpace(s, b + 1, Len(s))

\* /^\s*\|.*\|\s*$/
TABLE_ROW_REGEX(s) ==
    \E a, b \in Positions(s) :
        /\ a < b
        /\ At(s, a) = "|" /\ At(s, b) = "|"
        /\ AllSpace(s, 1, a - 1)
        /\ AllSpace(s, b + 1, Len(s))

\* /^\s*\|[\s\-:|\s]*\|\s*$/
TABLE_SEPARATOR_REGEX(s) ==
    \E a, b \in Positions(s) :
        /\ a < b
        /\ At(s, a) = "|" /\ At(s, b) = "|"
        /\ AllSpace(s, 1, a - 1)
        /\ \A k \in (a + 1)..(b - 1) : IsSpace(At(s, k)) \/ At(s, k) \in {"-", ":", "|"}
        /\ AllSpace(s, b + 1, Len(s))

\* the characters of s from position k on begin with w
StartsAt(s, k, w) == k + Len(w) - 1 <= Len(s) /\ SubSeq(s, k, k + Len(w) - 1) = w

LiquidKeywords == {"ifversion", "else", "endif", "elsif"}

\* /^\s*{%\s*(ifversion|else|endif|elsif).*%}\s*$/
LIQUID_ONLY_CELL_REGEX(s) ==
    \E open, kw, close \in Positions(s) :
        /\ AllSpace(s, 1, open - 1)
        /\ StartsAt(s, open, "{%")
        /\ open + 2 <= kw
        /\ AllSpace(s, open + 2, kw - 1)
        /\ \E w \in LiquidKeywords :
              /\ StartsAt(s, kw, w)
              /\ kw + Len(w) <= close
        /\ StartsAt(s, close, "%}")
        /\ AllSpace(s, close + 2, Len(s))

(***************************************************************************)
(* countColumns and isLiquidOnlyRow                                        *)
(***************************************************************************)
shift(a) == SubSeq(a, 2, Len(a))
pop(a) == SubSeq(a, 1, Len(a) - 1)

\* forgets the empty piece after a trailing delimiter
countColumns_keepsLast(r) ==
    LET trimmed == trim(r) IN
    IF trimmed = "" \/ ~includesPipe(trimmed) THEN 0
    ELSE LET pieces == split(trimmed)
         IN  IF trim(pieces[1]) = "" THEN Len(pieces) - 1 ELSE Len(pieces)

countColumns(r) ==
    LET trimmed == trim(r) IN
    IF trimmed = "" \/ ~includesPipe(trimmed) THEN 0
    ELSE LET pieces  == split(trimmed)
             shifted == IF Len(pieces) > 0 /\ trim(pieces[1]) = "" THEN shift(pieces) ELSE pieces
             popped  == IF Len(shifted) > 0 /\ trim(shifted[Len(shifted)]) = "" THEN pop(shifted) ELSE shifted
         IN  Len(popped)

\* Array.prototype.filter, keeping the elements whose index satisfies keep
RECURSIVE filterIdx(_, _, _)
filterIdx(a, keep, k) ==
    IF k > Len(a) THEN <<>>
    ELSE (IF k \in keep THEN <<a[k]>> ELSE <<>>) \o filterIdx(a, keep, k + 1)

\* discards every empty cell, not only the first and the last
filteredCells_allEmpty(r) ==
    LET pieces == split(trim(r))
    IN  filterIdx(pieces, {k \in 1..Len(pieces) : trim(pieces[k]) # ""}, 1)

filteredCells(r) ==
    LET pieces == split(trim(r))
        keep   == {k \in 1..Len(pieces) :
                      /\ ~(k = 1 /\ trim(pieces[k]) = "")
                      /\ ~(k = Len(pieces) /\ trim(pieces[k]) = "")}
    IN  filterIdx(pieces, keep, 1)

isLiquidOnlyRow(r) ==
    LET trimmed == trim(r) IN
    IF ~includesPipe(trimmed) THEN FALSE
    ELSE LET fc == filteredCells(r)
         IN  Len(fc) > 0 /\ \A cell \in {fc[k] : k \in 1..Len(fc)} : LIQUID_ONLY_CELL_REGEX(cell)

(***************************************************************************)
(* Inputs                                                                  *)
(***************************************************************************)
\* An optional value: null is the empty tuple, a value v is <<v>>
null == <<>>
Some(v) == <<v>>

\* The lines documents are made of: table rows of two, one (padded with
\* whitespace) and three columns, a separator row, text without a delimiter,
\* a table row whose only cell is a Liquid tag, and a Liquid-only row that
\* is not a table row.
LinePool ==
    { "|a|b|", " |a| ", "|a|b|c|", "|-|:-|", "a",
      "|{%else%}|", "{%else%}|{%endif%}" }

RECURSIVE SeqsUpTo(_, _)
SeqsUpTo(S, n) ==
    IF n = 0 THEN {<<>>}
    ELSE LET shorter == SeqsUpTo(S, n - 1)
         IN  shorter \cup {Append(d, l) : d \in {e \in shorter : Len(e) = n - 1}, l \in S}

Documents == SeqsUpTo(LinePool, MaxLines)

\* What the front-matter decoder returns as .data: nothing, or a mapping
\* whose autogenerated key is absent ("undefined") or set.
FrontMatterData ==
    {null} \cup {Some([autogenerated |-> v]) : v \in {"undefined", "true", "rest"}}

\* compares with the boolean true instead of testing truthiness
isAutogenerated_strict(data) ==
    data # null /\ data[1].autogenerated = "true"

\* JavaScript truthiness of fm && fm.autogenerated
isAutogenerated(data) ==
    data # null /\ data[1].autogenerated \notin {"undefined", "false", ""}

Invocations == {1, 2}

(***************************************************************************)
(* State: the locals of each invocation of tableColumnIntegrity.function   *)
(***************************************************************************)
VARIABLES
    pc,                  \* "idle", "gate", "loop" or "done"
    fm,                  \* frontmatter(frontmatterString).data
    lines,               \* params.lines
    i,                   \* loop index, 0-based as in the code
    inTable,
    expectedColumnCount,
    tableStartLine,
    headerRow,
    errors,              \* what addError has passed to onError, in order
    row,                 \* a row given to the functions on rows
    columns,             \* the result of countColumns(row), once called
    cells,               \* filteredCells of isLiquidOnlyRow(row), once called
    tests                \* the results of the two row patterns on row, once tested

rowVars == <<row, columns, cells, tests>>

vars == <<pc, fm, lines, i, inTable, expectedColumnCount, tableStartLine, headerRow, errors,
          row, columns, cells, tests>>

\* lines[i] of the code (0-based), as an optional value
lineAt(p, k) == IF k + 1 \in 1..Len(lines[p]) THEN Some(lines[p][k + 1]) ELSE null

line(p) == lines[p][i[p] + 1]

isTableRow(p) == TABLE_ROW_REGEX(line(p))
\* a separator pattern that forgets the alignment colons
isSeparatorRow_dashes(p) ==
    TABLE_SEPARATOR_REGEX(line(p)) /\ \A k \in Positions(line(p)) : At(line(p), k) # ":"

isSeparatorRow(p) == TABLE_SEPARATOR_REGEX(line(p))

\* looks ahead for any table row instead of a separator
nextLineIsSeparator_anyRow(p) ==
    LET nextLine == lineAt(p, i[p] + 1)
    IN  nextLine # null /\ nextLine[1] # "" /\ TABLE_ROW_REGEX(nextLine[1])

\* nextLine && TABLE_SEPARATOR_REGEX.test(nextLine)
nextLineIsSeparator(p) ==
    LET nextLine == lineAt(p, i[p] + 1)
    IN  nextLine # null /\ nextLine[1] # "" /\ TABLE_SEPARATOR_REGEX(nextLine[1])

inLoop(p) == pc[p] = "loop" /\ i[p] < Len(lines[p])

\* opens a table at every row that a separator follows, in a table or not
startsTable_anywhere(p) == isTableRow(p) /\ nextLineIsSeparator(p)

startsTable(p) == ~inTable[p] /\ isTableRow(p) /\ nextLineIsSeparator(p)

\* closes the table on blank lines only
endsTable_blank(p) == inTable[p] /\ trim(line(p)) = ""

endsTable(p) == inTable[p] /\ ~isTableRow(p)

\* validates the separator rows too
validatesRow_separators(p) == inTable[p] /\ isTableRow(p)

validatesRow(p) == inTable[p] /\ isTableRow(p) /\ ~isSeparatorRow(p)

\* tests the whole line against the cell pattern instead of each cell
isLiquidOnly_wholeLine(p) == LIQUID_ONLY_CELL_REGEX(line(p))

\* if (isLiquidOnlyRow(line)) continue
isLiquidOnly(p) == isLiquidOnlyRow(line(p))

\* subtracts the same way in both branches
errorMessage_signed(actualColumnCount, expected) ==
    [actual |-> actualColumnCount, expected |-> expected,
     add |-> actualColumnCount - expected,
     to |-> IF actualColumnCount > expected THEN "header row" ELSE "this row"]

\* The template literals of the two messages, as the values they interpolate
errorMessage(actualColumnCount, expected) ==
    IF actualColumnCount > expected
    THEN [actual |-> actualColumnCount, expected |-> expected,
          add |-> actualColumnCount - expected, to |-> "header row"]
    ELSE [actual |-> actualColumnCount, expected |-> expected,
          add |-> expected - actualColumnCount, to |-> "this row"]

\* reports the 0-based index of the line
addError_zeroBased(p, actualColumnCount) ==
    Append(errors[p],
           [lineNumber |-> i[p],
            detail     |-> errorMessage(actualColumnCount, expectedColumnCount[p][1]),
            context    |-> line(p),
            fixInfo    |-> null])

\* addError(onError, i + 1, errorMessage, line, range, null)
addError(p, actualColumnCount) ==
    Append(errors[p],
           [lineNumber |-> i[p] + 1,
            detail     |-> errorMessage(actualColumnCount, expectedColumnCount[p][1]),
            context    |-> line(p),
            fixInfo    |-> null])

\* reports only the rows that are wider than the header
mismatch_wider(p) == countColumns(line(p)) > expectedColumnCount[p][1]

mismatch(p) == Some(countColumns(line(p))) # expectedColumnCount[p]

(***************************************************************************)
(* Steps                                                                   *)
(***************************************************************************)
\* if (fm && fm.autogenerated) return
SkipAutogenerated(p) ==
    /\ pc[p] = "gate"
    /\ isAutogenerated(fm[p])
    /\ pc' = [pc EXCEPT ![p] = "done"]
    /\ UNCHANGED <<fm, lines, i, inTable, expectedColumnCount, tableStartLine, headerRow, errors>>
    /\ UNCHANGED rowVars

\* let inTable = true
BeginScan_inTable(p) ==
    /\ pc[p] = "gate"
    /\ ~isAutogenerated(fm[p])
    /\ pc' = [pc EXCEPT ![p] = "loop"]
    /\ i' = [i EXCEPT ![p] = 0]
    /\ inTable' = [inTable EXCEPT ![p] = TRUE]
    /\ expectedColumnCount' = [expectedColumnCount EXCEPT ![p] = null]
    /\ tableStartLine' = [tableStartLine EXCEPT ![p] = null]
    /\ headerRow' = [headerRow EXCEPT ![p] = null]
    /\ UNCHANGED <<fm, lines, errors>>
    /\ UNCHANGED rowVars

\* the declarations before the loop
BeginScan(p) ==
    /\ pc[p] = "gate"
    /\ ~isAutogenerated(fm[p])
    /\ pc' = [pc EXCEPT ![p] = "loop"]
    /\ i' = [i EXCEPT ![p] = 0]
    /\ inTable' = [inTable EXCEPT ![p] = FALSE]
    /\ expectedColumnCount' = [expectedColumnCount EXCEPT ![p] = null]
    /\ tableStartLine' = [tableStartLine EXCEPT ![p] = null]
    /\ headerRow' = [headerRow EXCEPT ![p] = null]
    /\ UNCHANGED <<fm, lines, errors>>
    /\ UNCHANGED rowVars

\* takes the expected column count from the separator instead of the header
StartTable_separatorCount(p) ==
    /\ inLoop(p)
    /\ startsTable(p)
    /\ inTable' = [inTable EXCEPT ![p] = TRUE]
    /\ tableStartLine' = [tableStartLine EXCEPT ![p] = Some(i[p] + 1)]
    /\ headerRow' = [headerRow EXCEPT ![p] = Some(line(p))]
    /\ expectedColumnCount' = [expectedColumnCount EXCEPT ![p] = Some(countColumns(lines[p][i[p] + 2]))]
    /\ i' = [i EXCEPT ![p] = @ + 1]
    /\ UNCHANGED <<pc, fm, lines, errors>>
    /\ UNCHANGED rowVars

\* a table row followed by a separator: open the table
StartTable(p) ==
    /\ inLoop(p)
    /\ startsTable(p)
    /\ inTable' = [inTable EXCEPT ![p] = TRUE]
    /\ tableStartLine' = [tableStartLine EXCEPT ![p] = Some(i[p] + 1)]
    /\ headerRow' = [headerRow EXCEPT ![p] = Some(line(p))]
    /\ expectedColumnCount' = [expectedColumnCount EXCEPT ![p] = Some(countColumns(line(p)))]
    /\ i' = [i EXCEPT ![p] = @ + 1]
    /\ UNCHANGED <<pc, fm, lines, errors>>
    /\ UNCHANGED rowVars

\* leaves the expected column count of the closed table in place
EndTable_keepsCount(p) ==
    /\ inLoop(p)
    /\ ~startsTable(p)
    /\ endsTable(p)
    /\ inTable' = [inTable EXCEPT ![p] = FALSE]
    /\ tableStartLine' = [tableStartLine EXCEPT ![p] = null]
    /\ headerRow' = [headerRow EXCEPT ![p] = null]
    /\ i' = [i EXCEPT ![p] = @ + 1]
    /\ UNCHANGED <<pc, fm, lines, errors, expectedColumnCount>>
    /\ UNCHANGED rowVars

\* keeps inTable in one variable shared by all invocations
EndTable_shared(p) ==
    /\ inLoop(p)
    /\ ~startsTable(p)
    /\ endsTable(p)
    /\ inTable' = [q \in Invocations |-> FALSE]
    /\ expectedColumnCount' = [expectedColumnCount EXCEPT ![p] = null]
    /\ tableStartLine' = [tableStartLine EXCEPT ![p] = null]
    /\ headerRow' = [headerRow EXCEPT ![p] = null]
    /\ i' = [i EXCEPT ![p] = @ + 1]
    /\ UNCHANGED <<pc, fm, lines, errors>>
    /\ UNCHANGED rowVars

\* a line that is not a table row: close the table
EndTable(p) ==
    /\ inLoop(p)
    /\ ~startsTable(p)
    /\ endsTable(p)
    /\ inTable' = [inTable EXCEPT ![p] = FALSE]
    /\ expectedColumnCount' = [expectedColumnCount EXCEPT ![p] = null]
    /\ tableStartLine' = [tableStartLine EXCEPT ![p] = null]
    /\ headerRow' = [headerRow EXCEPT ![p] = null]
    /\ i' = [i EXCEPT ![p] = @ + 1]
    /\ UNCHANGED <<pc, fm, lines, errors>>
    /\ UNCHANGED rowVars

\* closes the table on a Liquid-only row
SkipLiquidOnlyRow_closes(p) ==
    /\ inLoop(p)
    /\ ~startsTable(p) /\ ~endsTable(p)
    /\ validatesRow(p)
    /\ isLiquidOnly(p)
    /\ inTable' = [inTable EXCEPT ![p] = FALSE]
    /\ expectedColumnCount' = [expectedColumnCount EXCEPT ![p] = null]
    /\ tableStartLine' = [tableStartLine EXCEPT ![p] = null]
    /\ headerRow' = [headerRow EXCEPT ![p] = null]
    /\ i' = [i EXCEPT ![p] = @ + 1]
    /\ UNCHANGED <<pc, fm, lines, errors>>
    /\ UNCHANGED rowVars

\* a Liquid-only row in a table: not validated
SkipLiquidOnlyRow(p) ==
    /\ inLoop(p)
    /\ ~startsTable(p) /\ ~endsTable(p)
    /\ validatesRow(p)
    /\ isLiquidOnly(p)
    /\ i' = [i EXCEPT ![p] = @ + 1]
    /\ UNCHANGED <<pc, fm, lines, inTable, expectedColumnCount, tableStartLine, headerRow, errors>>
    /\ UNCHANGED rowVars

\* a row in a table whose column count is not the header's: report it
ReportMismatch(p) ==
    /\ inLoop(p)
    /\ ~startsTable(p) /\ ~endsTable(p)
    /\ validatesRow(p)
    /\ ~isLiquidOnly(p)
    /\ mismatch(p)
    /\ errors' = [errors EXCEPT ![p] = addError(p, countColumns(line(p)))]
    /\ i' = [i EXCEPT ![p] = @ + 1]
    /\ UNCHANGED <<pc, fm, lines, inTable, expectedColumnCount, tableStartLine, headerRow>>
    /\ UNCHANGED rowVars

\* a row in a table whose column count is the header's
AcceptRow(p) ==
    /\ inLoop(p)
    /\ ~startsTable(p) /\ ~endsTable(p)
    /\ validatesRow(p)
    /\ ~isLiquidOnly(p)
    /\ ~mismatch(p)
    /\ i' = [i EXCEPT ![p] = @ + 1]
    /\ UNCHANGED <<pc, fm, lines, inTable, expectedColumnCount, tableStartLine, headerRow, errors>>
    /\ UNCHANGED rowVars

\* a line outside a table that opens none, or a separator row in a table
PassLine(p) ==
    /\ inLoop(p)
    /\ ~startsTable(p) /\ ~endsTable(p) /\ ~validatesRow(p)
    /\ i' = [i EXCEPT ![p] = @ + 1]
    /\ UNCHANGED <<pc, fm, lines, inTable, expectedColumnCount, tableStartLine, headerRow, errors>>
    /\ UNCHANGED rowVars

\* i < lines.length - 1: leaves the loop before the last line
Return_early(p) ==
    /\ pc[p] = "loop"
    /\ ~(i[p] < Len(lines[p]) - 1)
    /\ pc' = [pc EXCEPT ![p] = "done"]
    /\ UNCHANGED <<fm, lines, i, inTable, expectedColumnCount, tableStartLine, headerRow, errors>>
    /\ UNCHANGED rowVars

\* i < lines.length fails: the function returns
Return(p) ==
    /\ pc[p] = "loop"
    /\ ~(i[p] < Len(lines[p]))
    /\ pc' = [pc EXCEPT ![p] = "done"]
    /\ UNCHANGED <<fm, lines, i, inTable, expectedColumnCount, tableStartLine, headerRow, errors>>
    /\ UNCHANGED rowVars

Step(p) ==
    \/ SkipAutogenerated(p)
    \/ BeginScan(p)
    \/ StartTable(p)
    \/ EndTable(p)
    \/ SkipLiquidOnlyRow(p)
    \/ ReportMismatch(p)
    \/ AcceptRow(p)
    \/ PassLine(p)
    \/ Return(p)

Next == \E p \in Invocations : Step(p)

\* The locals of an invocation that has not reached its declarations
Unset(f) == [p \in Invocations |-> f]

\* No row has been given to the functions on rows
NoRow == row = "" /\ columns = null /\ cells = null /\ tests = null

\* One invocation on any document; the other invocation is never made
Init ==
    /\ pc = [p \in Invocations |-> IF p = 1 THEN "gate" ELSE "idle"]
    /\ \E data \in FrontMatterData : fm = [p \in Invocations |-> IF p = 1 THEN data ELSE null]
    /\ \E doc \in Documents : lines = [p \in Invocations |-> IF p = 1 THEN doc ELSE <<>>]
    /\ i = Unset(0)
    /\ inTable = Unset(FALSE)
    /\ expectedColumnCount = Unset(null)
    /\ tableStartLine = Unset(null)
    /\ headerRow = Unset(null)
    /\ errors = Unset(<<>>)
    /\ NoRow

Spec == Init /\ [][Next]_vars

\* Documents that open a table and continue with any lines
ConcDocuments ==
    {<<>>} \cup {<<"|a|b|", "|-|:-|">> \o rest : rest \in SeqsUpTo(LinePool, MaxConcRows)}

\* The host has made two invocations, on two documents; their steps interleave
InitConc ==
    /\ pc = [p \in Invocations |-> "gate"]
    /\ fm \in [Invocations -> {Some([autogenerated |-> "undefined"]), Some([autogenerated |-> "true"])}]
    /\ lines \in [Invocations -> ConcDocuments]
    /\ i = Unset(0)
    /\ inTable = Unset(FALSE)
    /\ expectedColumnCount = Unset(null)
    /\ tableStartLine = Unset(null)
    /\ headerRow = Unset(null)
    /\ errors = Unset(<<>>)
    /\ NoRow

SpecConc == InitConc /\ [][Next]_vars

\* The empty document, documents that end in a table row with no table
\* open, and the documents that open a table
FairDocuments == ConcDocuments \cup {<<"a">>, <<"|a|b|">>, <<"a", " |a| ">>}

InitFair ==
    /\ pc = [p \in Invocations |-> IF p = 1 THEN "gate" ELSE "idle"]
    /\ \E data \in FrontMatterData : fm = [p \in Invocations |-> IF p = 1 THEN data ELSE null]
    /\ \E doc \in FairDocuments : lines = [p \in Invocations |-> IF p = 1 THEN doc ELSE <<>>]
    /\ i = Unset(0)
    /\ inTable = Unset(FALSE)
    /\ expectedColumnCount = Unset(null)
    /\ tableStartLine = Unset(null)
    /\ headerRow = Unset(null)
    /\ errors = Unset(<<>>)
    /\ NoRow

\* No invocation has a step left: each is not called or has returned
Returned == \A p \in Invocations : pc[p] \in {"idle", "done"}

\* The function is synchronous: once called it runs on to its return.  This is
\* WF_vars(Next) with ENABLED <<Next>>_vars written out as ~Returned: the guards
\* of Step are exhaustive in every "gate" and "loop" state.
SpecFair == InitFair /\ [][Next]_vars /\ ([]<>Returned \/ []<><<Next>>_vars)

\* Documents whose first table has three columns and that go on long enough
\* to close it and open a second table
ReopenDocuments ==
    {<<"|a|b|c|", "|-|:-|">> \o rest : rest \in SeqsUpTo(LinePool, MaxLines - 1)}

\* One invocation on a document that starts with a table
InitReopen ==
    /\ pc = [p \in Invocations |-> IF p = 1 THEN "gate" ELSE "idle"]
    /\ \E data \in {Some([autogenerated |-> "undefined"]), Some([autogenerated |-> "true"])} :
          fm = [p \in Invocations |-> IF p = 1 THEN data ELSE null]
    /\ \E doc \in ReopenDocuments : lines = [p \in Invocations |-> IF p = 1 THEN doc ELSE <<>>]
    /\ i = Unset(0)
    /\ inTable = Unset(FALSE)
    /\ expectedColumnCount = Unset(null)
    /\ tableStartLine = Unset(null)
    /\ headerRow = Unset(null)
    /\ errors = Unset(<<>>)
    /\ NoRow

SpecReopen == InitReopen /\ [][Next]_vars

(***************************************************************************)
(* The functions on rows, each called once on a row of any characters      *)
(***************************************************************************)
\* A delimiter, whitespace, cell text and the characters of a separator
Alphabet == {"|", " ", "a", "-", ":"}

RECURSIVE StringsUpTo(_)
StringsUpTo(n) ==
    IF n = 0 THEN {""}
    ELSE LET shorter == StringsUpTo(n - 1)
         IN  shorter \cup {t \o c : t \in {u \in shorter : Len(u) = n - 1}, c \in Alphabet}

Rows == StringsUpTo(MaxRowLen)

\* countColumns(row)
CountColumns ==
    /\ columns = null
    /\ columns' = Some(countColumns(row))
    /\ UNCHANGED <<pc, fm, lines, i, inTable, expectedColumnCount, tableStartLine, headerRow,
                   errors, row, cells, tests>>

\* isLiquidOnlyRow(row), as far as its filteredCells
FilterCells ==
    /\ cells = null
    /\ includesPipe(trim(row))
    /\ cells' = Some(filteredCells(row))
    /\ UNCHANGED <<pc, fm, lines, i, inTable, expectedColumnCount, tableStartLine, headerRow,
                   errors, row, columns, tests>>

\* TABLE_ROW_REGEX.test(row) and TABLE_SEPARATOR_REGEX.test(row)
TestRow ==
    /\ tests = null
    /\ tests' = Some([isTableRow |-> TABLE_ROW_REGEX(row),
                      isSeparatorRow |-> TABLE_SEPARATOR_REGEX(row)])
    /\ UNCHANGED <<pc, fm, lines, i, inTable, expectedColumnCount, tableStartLine, headerRow,
                   errors, row, columns, cells>>

NextRows == CountColumns \/ FilterCells \/ TestRow

\* No invocation is made; a row is given
InitRows ==
    /\ pc = [p \in Invocations |-> "idle"]
    /\ fm = Unset(null)
    /\ lines = Unset(<<>>)
    /\ i = Unset(0)
    /\ inTable = Unset(FALSE)
    /\ expectedColumnCount = Unset(null)
    /\ tableStartLine = Unset(null)
    /\ headerRow = Unset(null)
    /\ errors = Unset(<<>>)
    /\ row \in Rows
    /\ columns = null /\ cells = null /\ tests = null

SpecRows == InitRows /\ [][NextRows]_vars

TypeOK ==
    /\ pc \in [Invocations -> {"idle", "gate", "loop", "done"}]
    /\ \A p \in Invocations : i[p] \in 0..Len(lines[p])

(***************************************************************************)
(* The table regions of a document, read off the document alone            *)
(***************************************************************************)
\* The first line of the unbroken run of table rows that ends at line h
RunStart(doc, h) ==
    CHOOSE r \in 1..h :
        /\ \A k \in r..h : TABLE_ROW_REGEX(doc[k])
        /\ \A q \in 1..(r - 1) : \E k \in q..h : ~TABLE_ROW_REGEX(doc[k])

\* A table is open when the scan reaches line j: the line before j is a
\* table row and some line of its run, or line j itself, is a separator that
\* follows a table row of the run.
InsideAt(doc, j) ==
    /\ j >= 2 /\ j - 1 <= Len(doc)
    /\ TABLE_ROW_REGEX(doc[j - 1])
    /\ \E k \in (RunStart(doc, j - 1) + 1)..j : k <= Len(doc) /\ TABLE_SEPARATOR_REGEX(doc[k])

\* The header of the table that is open when the scan reaches line j
HeaderOf(doc, j) ==
    CHOOSE g \in RunStart(doc, j - 1)..(j - 1) :
        /\ g + 1 <= Len(doc) /\ TABLE_SEPARATOR_REGEX(doc[g + 1])
        /\ \A q \in RunStart(doc, j - 1)..(g - 1) : ~TABLE_SEPARATOR_REGEX(doc[q + 1])

\* Line h is a header, line h + 1 a separator and the n lines after it are
\* table rows with the header's column count
WellFormedTable(doc, h, n) ==
    /\ h >= 1 /\ h + 1 + n <= Len(doc)
    /\ TABLE_ROW_REGEX(doc[h])
    /\ TABLE_SEPARATOR_REGEX(doc[h + 1])
    /\ \A k \in (h + 2)..(h + 1 + n) :
          TABLE_ROW_REGEX(doc[k]) /\ countColumns(doc[k]) = countColumns(doc[h])

ErrorLines(p) == {errors[p][k].lineNumber : k \in 1..Len(errors[p])}

\* The decoded front matter of p's document sets autogenerated
MarkedAutogenerated(p) == fm[p] # null /\ fm[p][1].autogenerated \in {"true", "rest"}

\* invocation p has scanned its whole document
Scanned(p) == pc[p] = "done" /\ ~MarkedAutogenerated(p) /\ i[p] = Len(lines[p])

\* invocation p processes its current line in this step
Processes(p) == inLoop(p) /\ i'[p] = i[p] + 1

\* The bookkeeping of the scan agrees with the regions read off the document
RegionsAgree ==
    \A p \in Invocations :
        pc[p] = "loop" =>
            /\ inTable[p] = InsideAt(lines[p], i[p] + 1)
            /\ inTable[p] => tableStartLine[p] = Some(HeaderOf(lines[p], i[p] + 1))

(***************************************************************************)
(* Claims                                                                  *)
(***************************************************************************)
\* C1: while a table is open, a table row that is neither a separator row
\* nor a Liquid-only row and whose column count differs from the expected
\* one gets exactly one error when it is processed, with its 1-based line
\* number, and that line had no error before.
C1_MismatchedRowReportedOnce ==
    [][\A p \in Invocations :
         ( /\ Processes(p)
           /\ inTable[p]
           /\ TABLE_ROW_REGEX(line(p))
           /\ ~TABLE_SEPARATOR_REGEX(line(p))
           /\ ~isLiquidOnlyRow(line(p))
           /\ countColumns(line(p)) # expectedColumnCount[p][1] )
         => /\ Len(errors'[p]) = Len(errors[p]) + 1
            /\ errors'[p][Len(errors'[p])].lineNumber = i[p] + 1
            /\ SubSeq(errors'[p], 1, Len(errors[p])) = errors[p]
            /\ (i[p] + 1) \notin ErrorLines(p)]_vars

\* a scan that has reported the third line of a table whose row is narrower
\* than its header
C1_Witness ==
    \E p \in Invocations :
        /\ Scanned(p)
        /\ Len(lines[p]) >= 3
        /\ InsideAt(lines[p], 3)
        /\ countColumns(lines[p][3]) < countColumns(lines[p][1])
        /\ ErrorLines(p) = {3}

\* C2 as stated: no line of a well-formed table (header, separator, N rows
\* with the header's column count) anywhere in a document has an error.
C2_Original ==
    \A p \in Invocations : \A e \in ErrorLines(p) :
        ~\E h \in 1..e : \E n \in 0..Len(lines[p]) :
            e <= h + 1 + n /\ WellFormedTable(lines[p], h, n)

\* C2 amended: no line of a well-formed table whose header the scan reaches
\* with no table open has an error.
C2_WellFormedTableClean ==
    \A p \in Invocations : \A e \in ErrorLines(p) :
        ~\E h \in 1..e : \E n \in 0..Len(lines[p]) :
            /\ e <= h + 1 + n
            /\ WellFormedTable(lines[p], h, n)
            /\ ~InsideAt(lines[p], h)

\* a finished scan of a document with text, a header, a separator and one
\* matching row
C2_Witness ==
    \E p \in Invocations :
        /\ Scanned(p)
        /\ Len(lines[p]) = 4
        /\ ~TABLE_ROW_REGEX(lines[p][1])
        /\ WellFormedTable(lines[p], 2, 1)
        /\ countColumns(lines[p][2]) # countColumns(lines[p][3])
        /\ errors[p] = <<>>

\* C3: every error reports the column count of its row and the column count
\* of the header of the table the row is in; the two differ; a wider row is
\* told to add the difference to the header row, a narrower one to add the
\* difference to this row; the difference is positive.
C3_ErrorReportsCounts ==
    \A p \in Invocations : \A k \in 1..Len(errors[p]) :
        LET e        == errors[p][k]
            actual   == countColumns(lines[p][e.lineNumber])
            expected == countColumns(lines[p][HeaderOf(lines[p], e.lineNumber)])
        IN  /\ InsideAt(lines[p], e.lineNumber)
            /\ e.detail.actual = actual
            /\ e.detail.expected = expected
            /\ actual # expected
            /\ e.detail.add > 0
            /\ actual > expected => (e.detail.to = "header row" /\ e.detail.add = actual - expected)
            /\ actual < expected => (e.detail.to = "this row" /\ e.detail.add = expected - actual)

\* the two examples: 3 columns against 2, then 1 column against 2
C3_Witness ==
    \E p \in Invocations :
        /\ Len(errors[p]) = 2
        /\ errors[p][1].detail = [actual |-> 3, expected |-> 2, add |-> 1, to |-> "header row"]
        /\ errors[p][2].detail = [actual |-> 1, expected |-> 2, add |-> 1, to |-> "this row"]

\* C4: no error is on a separator row.
C4_SeparatorNeverReported ==
    \A p \in Invocations : \A n \in ErrorLines(p) : ~TABLE_SEPARATOR_REGEX(lines[p][n])

\* a finished scan that met, in an open table, a separator row with another
\* column count than the header's
C4_Witness ==
    \E p \in Invocations : \E n \in 3..Len(lines[p]) :
        /\ Scanned(p)
        /\ InsideAt(lines[p], n)
        /\ TABLE_SEPARATOR_REGEX(lines[p][n])
        /\ countColumns(lines[p][n]) # countColumns(lines[p][HeaderOf(lines[p], n)])
        /\ n \notin ErrorLines(p)

\* C5: no error is on a Liquid-only row.
C5_LiquidOnlyRowNeverReported ==
    \A p \in Invocations : \A n \in ErrorLines(p) : ~isLiquidOnlyRow(lines[p][n])

\* a finished scan that met, in an open table, a Liquid-only table row with
\* another column count than the header's
C5_Witness ==
    \E p \in Invocations : \E n \in 3..Len(lines[p]) :
        /\ Scanned(p)
        /\ InsideAt(lines[p], n)
        /\ TABLE_ROW_REGEX(lines[p][n])
        /\ isLiquidOnlyRow(lines[p][n])
        /\ countColumns(lines[p][n]) # countColumns(lines[p][HeaderOf(lines[p], n)])
        /\ n \notin ErrorLines(p)

\* C6: a table row processed with no table open, whose next line is absent
\* or is not a separator row, opens no table and gets no error; and every
\* error is on a line of a table that a table row followed by a separator
\* row has opened.
C6_NoSeparatorNoTable ==
    /\ [][\A p \in Invocations :
            ( /\ Processes(p)
              /\ ~inTable[p]
              /\ TABLE_ROW_REGEX(line(p))
              /\ \/ i[p] + 2 > Len(lines[p])
                 \/ ~TABLE_SEPARATOR_REGEX(lines[p][i[p] + 2]) )
            => ~inTable'[p] /\ errors'[p] = errors[p]]_vars
    /\ [](\A p \in Invocations : \A n \in ErrorLines(p) :
            \E h \in 1..(n - 2) :
                /\ TABLE_ROW_REGEX(lines[p][h])
                /\ TABLE_SEPARATOR_REGEX(lines[p][h + 1])
                /\ \A k \in h..n : TABLE_ROW_REGEX(lines[p][k]))

\* a finished scan of table rows of different column counts, none followed
\* by a separator row
C6_Witness ==
    \E p \in Invocations :
        /\ Scanned(p)
        /\ Len(lines[p]) >= 3
        /\ \A k \in 1..Len(lines[p]) :
              TABLE_ROW_REGEX(lines[p][k]) /\ ~TABLE_SEPARATOR_REGEX(lines[p][k])
        /\ countColumns(lines[p][1]) # countColumns(lines[p][2])
        /\ countColumns(lines[p][1]) # countColumns(lines[p][3])
        /\ ~inTable[p]
        /\ errors[p] = <<>>

\* C7: when the decoded front matter sets autogenerated, the loop is never
\* entered and no error is reported.
C7_AutogeneratedSkipped ==
    \A p \in Invocations :
        MarkedAutogenerated(p) => pc[p] # "loop" /\ i[p] = 0 /\ errors[p] = <<>>

\* an autogenerated document with a table whose third line is a mismatched
\* row, after the function has returned
C7_Witness ==
    \E p \in Invocations :
        /\ MarkedAutogenerated(p)
        /\ pc[p] = "done"
        /\ Len(lines[p]) >= 3
        /\ WellFormedTable(lines[p], 1, 0)
        /\ TABLE_ROW_REGEX(lines[p][3])
        /\ ~TABLE_SEPARATOR_REGEX(lines[p][3])
        /\ ~isLiquidOnlyRow(lines[p][3])
        /\ countColumns(lines[p][3]) # countColumns(lines[p][1])

\* C8 as stated: a row without a delimiter that is processed while a table
\* is open (with a non-zero expected count) gets an error.
C8_Original ==
    [][\A p \in Invocations :
         ( /\ Processes(p)
           /\ inTable[p]
           /\ ~includesPipe(line(p))
           /\ expectedColumnCount[p] # Some(0) )
         => Len(errors'[p]) = Len(errors[p]) + 1]_vars

\* C8 amended: a row without a delimiter counts 0 columns; processed while a
\* table is open it is not a table row, so it closes the table and gets no
\* error.
C8_DelimiterFreeRowClosesTable ==
    [][\A p \in Invocations :
         ( /\ Processes(p)
           /\ inTable[p]
           /\ ~includesPipe(line(p)) )
         => /\ countColumns(line(p)) = 0
            /\ ~inTable'[p]
            /\ expectedColumnCount'[p] = null
            /\ errors'[p] = errors[p]]_vars

\* the scan has just processed, in an open table, a line without a delimiter
C8_Witness ==
    \E p \in Invocations :
        /\ pc[p] = "loop"
        /\ i[p] >= 3
        /\ InsideAt(lines[p], i[p])
        /\ ~includesPipe(lines[p][i[p]])
        /\ ~inTable[p]
        /\ errors[p] = <<>>

\* The errors of a scan of doc by itself, after its first k lines: one for
\* each row of an open table that is no separator row, no Liquid-only row
\* and has another column count than the header of its table
RECURSIVE AloneErrors(_, _)
AloneErrors(doc, k) ==
    IF k = 0 THEN <<>>
    ELSE IF /\ InsideAt(doc, k)
            /\ TABLE_ROW_REGEX(doc[k])
            /\ ~TABLE_SEPARATOR_REGEX(doc[k])
            /\ ~isLiquidOnlyRow(doc[k])
            /\ countColumns(doc[k]) # countColumns(doc[HeaderOf(doc, k)])
         THEN Append(AloneErrors(doc, k - 1),
                     [lineNumber |-> k,
                      detail     |-> errorMessage(countColumns(doc[k]),
                                                  countColumns(doc[HeaderOf(doc, k)])),
                      context    |-> doc[k],
                      fixInfo    |-> null])
         ELSE AloneErrors(doc, k - 1)

\* C9: however the steps of two invocations interleave, the errors each has
\* reported are the errors of a scan of its own document by itself, up to
\* its own position; each step changes the locals of one invocation only.
C9_InvocationsIndependent ==
    /\ [](\A p \in Invocations :
            errors[p] = IF pc[p] = "gate" \/ MarkedAutogenerated(p) THEN <<>>
                        ELSE AloneErrors(lines[p], i[p]))
    /\ [][\E p \in Invocations : \A q \in Invocations \ {p} :
            /\ pc'[q] = pc[q] /\ i'[q] = i[q] /\ inTable'[q] = inTable[q]
            /\ expectedColumnCount'[q] = expectedColumnCount[q]
            /\ tableStartLine'[q] = tableStartLine[q]
            /\ headerRow'[q] = headerRow[q]
            /\ errors'[q] = errors[q]]_vars

\* both invocations are in their loops; one is in a table and has reported
\* a row, the other has closed its table without reporting anything
C9_Witness ==
    /\ pc[1] = "loop" /\ pc[2] = "loop"
    /\ i[1] = 3 /\ i[2] = 3
    /\ inTable[1] /\ Len(errors[1]) = 1
    /\ ~inTable[2] /\ errors[2] = <<>>

\* C10: a table row processed with no table open, whose next line exists
\* and is a separator row, opens a table whose expected column count is the
\* row's; and neither such a header nor the separator after it has an error.
C10_HeaderOpensTable ==
    /\ [][\A p \in Invocations :
            ( /\ Processes(p)
              /\ ~inTable[p]
              /\ TABLE_ROW_REGEX(line(p))
              /\ i[p] + 2 <= Len(lines[p])
              /\ TABLE_SEPARATOR_REGEX(lines[p][i[p] + 2]) )
            => /\ inTable'[p]
               /\ expectedColumnCount'[p] = Some(countColumns(line(p)))
               /\ errors'[p] = errors[p]]_vars
    /\ [](\A p \in Invocations : \A e \in ErrorLines(p) :
            ~\E h \in {e - 1, e} \cap (1..(Len(lines[p]) - 1)) :
                /\ TABLE_ROW_REGEX(lines[p][h])
                /\ TABLE_SEPARATOR_REGEX(lines[p][h + 1])
                /\ ~InsideAt(lines[p], h))

\* the scan has passed a header and a separator of different column counts
\* and is in the table with the header's count
C10_Witness ==
    \E p \in Invocations :
        /\ pc[p] = "loop"
        /\ i[p] = 2
        /\ TABLE_ROW_REGEX(lines[p][1])
        /\ TABLE_SEPARATOR_REGEX(lines[p][2])
        /\ countColumns(lines[p][1]) # countColumns(lines[p][2])
        /\ inTable[p]
        /\ expectedColumnCount[p] = Some(countColumns(lines[p][1]))
        /\ errors[p] = <<>>

\* C11: a line that is not a table row, processed while a table is open,
\* closes the table on that step, clears the expected column count and gets
\* no error; a row is reported only if every line from the header of its
\* table to the row is a table row; and the expected column count of an
\* open table is the column count of its own header, whatever table was
\* open before.
C11_NonRowClosesTable ==
    /\ [][\A p \in Invocations :
            (Processes(p) /\ inTable[p] /\ ~TABLE_ROW_REGEX(line(p)))
            => /\ ~inTable'[p]
               /\ expectedColumnCount'[p] = null
               /\ errors'[p] = errors[p]]_vars
    /\ [](\A p \in Invocations : \A e \in ErrorLines(p) :
            /\ InsideAt(lines[p], e)
            /\ \A k \in HeaderOf(lines[p], e)..e : TABLE_ROW_REGEX(lines[p][k]))
    /\ [](\A p \in Invocations :
            (pc[p] = "loop" /\ inTable[p])
            => expectedColumnCount[p]
                   = Some(countColumns(lines[p][HeaderOf(lines[p], i[p] + 1)])))

\* a three-column table was closed by a line that is not a table row, and
\* the scan is now in a second table with another column count, having
\* reported nothing
C11_Witness ==
    \E p \in Invocations :
        /\ pc[p] = "loop"
        /\ i[p] = 5
        /\ ~TABLE_ROW_REGEX(lines[p][3])
        /\ inTable[p]
        /\ tableStartLine[p] = Some(4)
        /\ expectedColumnCount[p] = Some(countColumns(lines[p][4]))
        /\ expectedColumnCount[p] # Some(3)
        /\ errors[p] = <<>>

(***************************************************************************)
(* Claims on the functions on rows                                         *)
(***************************************************************************)
Delimiters(r) == Cardinality({k \in Positions(r) : At(r, k) = "|"})

\* the first, the last character of r that is not whitespace is a delimiter
LeadingDelimiter(r) == \E k \in Positions(r) : At(r, k) = "|" /\ AllSpace(r, 1, k - 1)
TrailingDelimiter(r) == \E k \in Positions(r) : At(r, k) = "|" /\ AllSpace(r, k + 1, Len(r))

\* C12: countColumns of a row with a delimiter is the number of delimiters
\* plus one, less one for a leading and less one for a trailing delimiter;
\* of a row without a delimiter it is 0; a table row with k >= 2 delimiters
\* counts k - 1 >= 1 columns.
C12_CountColumnsFormula ==
    columns # null =>
        /\ Delimiters(row) = 0 => columns[1] = 0
        /\ Delimiters(row) > 0 =>
              columns[1] = Delimiters(row) + 1
                             - (IF LeadingDelimiter(row) THEN 1 ELSE 0)
                             - (IF TrailingDelimiter(row) THEN 1 ELSE 0)
        /\ (LeadingDelimiter(row) /\ TrailingDelimiter(row) /\ Delimiters(row) >= 2)
              => columns[1] = Delimiters(row) - 1 /\ columns[1] >= 1

\* countColumns("|a|a|") has returned 2
C12_Witness == row = "|a|a|" /\ columns = Some(2)

\* C13: for a row with a delimiter, isLiquidOnlyRow keeps as many cells as
\* countColumns counts.
C13_SameSplitting ==
    (cells # null /\ columns # null) => Len(cells[1]) = columns[1]

\* both functions have been called on "||": one empty cell, one column
C13_Witness == row = "||" /\ cells = Some(<<"">>) /\ columns = Some(1)

C15_ScanTerminates ==
    /\ \A p \in Invocations : (pc[p] = "gate") ~> (pc[p] = "done")
    /\ [][\A p \in Invocations :
            /\ (pc[p] = "gate" /\ pc'[p] = "loop") => (i'[p] = 0 /\ ~inTable'[p])
            /\ (pc[p] = "loop" /\ <<pc[p], i[p]>> # <<pc'[p], i'[p]>>)
               => \/ i[p] < Len(lines[p]) /\ i'[p] = i[p] + 1 /\ pc'[p] = "loop"
                  \/ i[p] = Len(lines[p]) /\ i'[p] = i[p] /\ pc'[p] = "done"
            /\ (Processes(p) /\ ~inTable[p] /\ i[p] + 1 = Len(lines[p])) => ~inTable'[p]]_vars
    /\ [](\A p \in Invocations :
            /\ pc[p] = "loop" => i[p] \in 0..Len(lines[p])
            /\ (pc[p] = "done" /\ ~MarkedAutogenerated(p)) => i[p] = Len(lines[p]))

\* a scan has returned from a document whose last line is a table row that
\* was reached with no table open
C15_Witness ==
    \E p \in Invocations :
        /\ Scanned(p)
        /\ Len(lines[p]) >= 1
        /\ TABLE_ROW_REGEX(lines[p][Len(lines[p])])
        /\ ~InsideAt(lines[p], Len(lines[p]))
        /\ ~inTable[p]

\* C16 as stated: while a table is open, processing any line that
\* isLiquidOnlyRow accepts leaves the table open with the same expected count.
C16_Original ==
    [][\A p \in Invocations :
         (Processes(p) /\ inTable[p] /\ isLiquidOnlyRow(line(p)))
         => (inTable'[p] /\ expectedColumnCount'[p] = expectedColumnCount[p])]_vars

\* C16: while a table is open, processing a table row that isLiquidOnlyRow
\* accepts leaves the table open with the same expected count and reports
\* nothing; a table row directly after it that is neither a separator nor
\* Liquid-only and whose column count is not the expected one is reported,
\* against the count of the same header.
C16_LiquidOnlyRowKeepsTable ==
    [][\A p \in Invocations :
         /\ (Processes(p) /\ inTable[p] /\ TABLE_ROW_REGEX(line(p)) /\ isLiquidOnlyRow(line(p)))
            => /\ inTable'[p]
               /\ expectedColumnCount'[p] = expectedColumnCount[p]
               /\ headerRow'[p] = headerRow[p]
               /\ errors'[p] = errors[p]
         /\ ( /\ Processes(p) /\ i[p] >= 2
              /\ InsideAt(lines[p], i[p])
              /\ TABLE_ROW_REGEX(lines[p][i[p]]) /\ isLiquidOnlyRow(lines[p][i[p]])
              /\ TABLE_ROW_REGEX(line(p)) /\ ~TABLE_SEPARATOR_REGEX(line(p))
              /\ ~isLiquidOnlyRow(line(p))
              /\ countColumns(line(p)) # countColumns(lines[p][HeaderOf(lines[p], i[p])]) )
            => /\ Len(errors'[p]) = Len(errors[p]) + 1
               /\ errors'[p][Len(errors'[p])].lineNumber = i[p] + 1
               /\ errors'[p][Len(errors'[p])].detail.expected
                    = countColumns(lines[p][HeaderOf(lines[p], i[p])])
               /\ inTable'[p]]_vars

\* a two-column table whose first data row is a one-cell Liquid-only row and
\* whose second data row has one column: only the second is reported
C16_Witness ==
    \E p \in Invocations :
        /\ Scanned(p)
        /\ lines[p] = <<"|a|b|", "|-|:-|", "|{%else%}|", " |a| ">>
        /\ inTable[p] /\ expectedColumnCount[p] = Some(2)
        /\ Len(errors[p]) = 1
        /\ errors[p][1].lineNumber = 4
        /\ errors[p][1].detail.expected = 2

\* The scan variables of the table that is open
region(p) == <<expectedColumnCount[p], headerRow[p], tableStartLine[p]>>

\* C17: while a table stays open its expected column count, header row and
\* start line are not modified; they are written only by the step that opens
\* a table and cleared only by the step that closes it; a row in a table that
\* is followed by a separator row does not open a table again, and reporting
\* a mismatch changes none of them.
C17_RegionUnchangedWhileOpen ==
    [][\A p \in Invocations :
         /\ (pc[p] = "loop" /\ inTable[p] /\ inTable'[p]) => region(p)' = region(p)
         /\ (pc[p] = "loop" /\ region(p)' # region(p))
            => \/ ~inTable[p] /\ inTable'[p] /\ region(p) = <<null, null, null>>
                  /\ null \notin {expectedColumnCount'[p], headerRow'[p], tableStartLine'[p]}
               \/ inTable[p] /\ ~inTable'[p] /\ region(p)' = <<null, null, null>>
         /\ (Processes(p) /\ inTable[p] /\ TABLE_ROW_REGEX(line(p)) /\ nextLineIsSeparator(p))
            => (inTable'[p] /\ region(p)' = region(p))
         /\ (pc[p] = "loop" /\ errors'[p] # errors[p])
            => (inTable[p] /\ inTable'[p] /\ region(p)' = region(p))]_vars

\* the one-column row on line 3 of a two-column table is followed by a second
\* separator row: it has been reported and the table of line 1 is still open
C17_Witness ==
    \E p \in Invocations :
        /\ pc[p] = "loop" /\ i[p] = 3
        /\ lines[p] = <<"|a|b|", "|-|:-|", " |a| ", "|-|:-|">>
        /\ inTable[p]
        /\ region(p) = <<Some(2), Some("|a|b|"), Some(1)>>
        /\ Len(errors[p]) = 1 /\ errors[p][1].lineNumber = 3

\* C18: at every loop boundary inTable is true exactly when the expected
\* column count, the start line and the header row are all non-null, and they
\* are all null otherwise; while inTable is true the header row is the line
\* at the 1-based start line, it is a table row, the start line is before the
\* current line, every line from the start line to the line before the
\* current one is a table row, and the expected column count is
\* countColumns of the header row.
C18_ScanVariablesAgree ==
    \A p \in Invocations :
        /\ inTable[p] <=> (null \notin {expectedColumnCount[p], tableStartLine[p], headerRow[p]})
        /\ ~inTable[p] => region(p) = <<null, null, null>>
        /\ (pc[p] = "loop" /\ inTable[p]) =>
              /\ tableStartLine[p][1] \in 1..Len(lines[p])
              /\ headerRow[p] = Some(lines[p][tableStartLine[p][1]])
              /\ TABLE_ROW_REGEX(headerRow[p][1])
              /\ tableStartLine[p][1] < i[p] + 1
              /\ \A k \in tableStartLine[p][1]..i[p] : TABLE_ROW_REGEX(lines[p][k])
              /\ expectedColumnCount[p] = Some(countColumns(headerRow[p][1]))

\* a table opened on line 2 whose first data row, of another width, has been
\* processed
C18_Witness ==
    \E p \in Invocations :
        /\ pc[p] = "loop" /\ i[p] = 4
        /\ lines[p] = <<"a", " |a| ", "|-|:-|", "|a|b|c|">>
        /\ inTable[p]
        /\ region(p) = <<Some(1), Some(" |a| "), Some(2)>>

\* The lines of a document that can be reported: table rows that are neither
\* separator rows nor Liquid-only rows
DataRows(doc) ==
    {k \in 1..Len(doc) : /\ TABLE_ROW_REGEX(doc[k]) /\ ~TABLE_SEPARATOR_REGEX(doc[k])
                         /\ ~isLiquidOnlyRow(doc[k])}

\* C19: the errors of a scan are in strictly increasing order of line number,
\* so at most one for a line; each has a line number of the document, of a
\* line already processed, that is a table row in an open table and at least
\* two lines after the header of that table; there are no more errors than
\* table rows that are neither separator rows nor Liquid-only rows.
C19_ErrorsOrderedAndBounded ==
    \A p \in Invocations :
        /\ \A a \in 1..Len(errors[p]) :
              LET n == errors[p][a].lineNumber
              IN  /\ n \in 1..Len(lines[p]) /\ n <= i[p]
                  /\ \A b \in (a + 1)..Len(errors[p]) : n < errors[p][b].lineNumber
                  /\ TABLE_ROW_REGEX(lines[p][n])
                  /\ InsideAt(lines[p], n)
                  /\ n >= HeaderOf(lines[p], n) + 2
                  /\ n \in DataRows(lines[p])
        /\ Len(errors[p]) > 0 => Len(errors[p]) <= Cardinality(DataRows(lines[p]))

\* both data rows of a two-column table have been reported, line 3 before
\* line 4
C19_Witness ==
    \E p \in Invocations :
        /\ Scanned(p)
        /\ lines[p] = <<"|a|b|", "|-|:-|", " |a| ", "|a|b|c|">>
        /\ Len(errors[p]) = 2
        /\ errors[p][1].lineNumber = 3 /\ errors[p][2].lineNumber = 4
        /\ Cardinality(DataRows(lines[p])) = 3

====
